---- MODULE Spec2Model ----
(***************************************************************************)
(* One call of QueryOrchestrator.orchestrate_query (src/orchestrator.py),  *)
(* with the polling client get_message (src/stravito_client.py) and the    *)
(* asyncio event loop that runs the process_angle tasks.                   *)
(*                                                                         *)
(* Python values are modelled as follows.                                  *)
(*   - a dict is a record whose DOMAIN is the set of keys it carries; the  *)
(*     empty dict is the function with the empty domain;                   *)
(*   - a str that is a message or an identifier is a TLA+ string; the text *)
(*     returned by the angle-generation call is a sequence of characters,  *)
(*     so that split and strip are computed;                               *)
(*   - None is a sentinel of the type of the slot: None for a str slot,    *)
(*     NoneData for a dict slot, NoneList for a list slot.                 *)
(* Every answer of a remote service (the text-generation capability, the   *)
(* conversation creation, a poll fetch) is chosen by the action that       *)
(* issues the call.                                                        *)
(***************************************************************************)
EXTENDS Integers, Sequences, FiniteSets, TLC

\* ------------------------------------------------------------------ bounds
\* Largest number of lines in the text returned by the angle-generation call.
MaxLines == 2
\* Largest configured poll budget (STRAVITO_POLL_MAX_RETRIES).
MaxRetries == 3
\* The longest query given to the mock orchestrator, in words.
MaxWords == 2

\* ------------------------------------------------------------ Python values
None == "<None>"
NoneData == [isNone |-> TRUE]
NoneList == << NoneData >>
EmptyDict == [k \in {} |-> None]
\* Local name that has not been assigned yet (reading it is UnboundLocalError).
Unbound == [unbound |-> TRUE]

\* dict.get(key, default)
Get(d, key, default) == IF key \in DOMAIN d THEN d[key] ELSE default

\* Truth value of a dict-or-None (`if not data`) and of a str-or-None.
TruthyData(d) == d # NoneData /\ DOMAIN d # {}
TruthyStr(s) == s # None /\ s # ""

\* ------------------------------------------------------------- text helpers
NL == "\n"
SP == " "

RECURSIVE Split(_)
\* str.split('\n'): the pieces between separators, at least one piece.
Split(s) ==
    IF \E i \in 1..Len(s) : s[i] = NL
    THEN LET i == CHOOSE j \in 1..Len(s) :
                      s[j] = NL /\ \A m \in 1..(j - 1) : s[m] # NL
         IN  << SubSeq(s, 1, i - 1) >> \o Split(SubSeq(s, i + 1, Len(s)))
    ELSE << s >>

RECURSIVE LStrip(_)
LStrip(s) == IF s # <<>> /\ Head(s) = SP THEN LStrip(Tail(s)) ELSE s

RECURSIVE RStrip(_)
RStrip(s) ==
    IF s # <<>> /\ s[Len(s)] = SP THEN RStrip(SubSeq(s, 1, Len(s) - 1)) ELSE s

\* str.strip()
Strip(s) == RStrip(LStrip(s))

RECURSIVE NonBlankStripped(_)
\* [line.strip() for line in lines if line.strip()]
NonBlankStripped(lines) ==
    IF lines = <<>> THEN <<>>
    ELSE LET l == Strip(Head(lines))
         IN  (IF l # <<>> THEN << l >> ELSE <<>>) \o NonBlankStripped(Tail(lines))

\* analyze_query_angles, line 37
ParseAngles(content) == NonBlankStripped(Split(content))

RECURSIVE JoinLines(_)
JoinLines(lines) ==
    IF Len(lines) = 1 THEN lines[1]
    ELSE lines[1] \o << NL >> \o JoinLines(Tail(lines))

\* A character sys.stdout cannot encode: the lone surrogate U+D800 on a utf-8
\* stdout, written as Python escapes it.
Surrogate == "\\ud800"
\* The text, a sequence of characters, has nothing print() fails to encode.
Encodable(s) == \A k \in 1..Len(s) : s[k] # Surrogate
\* The 0-based position of the first character of s that print() cannot encode.
FirstUnencodable(s) ==
    (CHOOSE k \in 1..Len(s) :
        s[k] = Surrogate /\ \A m \in 1..(k - 1) : s[m] # Surrogate) - 1
\* The number of adjacent characters of s print() cannot encode, from the
\* first of them on.
UnencodableRun(s) ==
    LET k == FirstUnencodable(s) + 1
    IN  Cardinality({ n \in k..Len(s) : \A m \in k..n : s[m] = Surrogate })
\* str(e) of the UnicodeEncodeError print() raises for a text whose first
\* character it cannot encode is at position pos, followed by run - 1 more:
\* the codec names one character, and gives a run of them as a range.
StrUnicodeEncodeError(pos, run) ==
    IF run = 1
    THEN "'utf-8' codec can't encode character '\\ud800' in position "
             \o ToString(pos) \o ": surrogates not allowed"
    ELSE "'utf-8' codec can't encode characters in position "
             \o ToString(pos) \o "-" \o ToString(pos + run - 1)
             \o ": surrogates not allowed"

\* A text of the assistant service (an identifier, a state, an error text, a
\* source title) is held as one string; the one print() cannot encode is the
\* one-character text Surrogate.
EncodableText(t) == t # Surrogate
\* What an f-string writes for a value that is a str or None.
Str(v) == IF v = None THEN "None" ELSE v
\* The log lines of stravito_client.py that carry a text of the service, up to
\* that text: line 21, line 43, line 57, line 83 and line 73.
LogConversationCreated == "[STRAVITO_CLIENT] Conversation created: ID="
LogFetchingMessage(conversation_id) ==
    "[STRAVITO_CLIENT] Fetching message: conversation=" \o Str(conversation_id)
        \o ", message="
LogPoll(n) == "[STRAVITO_CLIENT] Poll #" \o ToString(n) \o ": State = "
LogErrorMessage == "[STRAVITO_CLIENT] Error message: "
LogSourceId(k) == "[STRAVITO_CLIENT]     [" \o ToString(k) \o "] ID: "
LogSourceTitle(k, source_id) ==
    LogSourceId(k) \o Str(source_id) \o ", Title: "

\* ------------------------------------------------- answers of the services
OriginalQuery == "What is quantum computing?"
\* The queries orchestrate_query is called with: the last is the one-character
\* query print() cannot encode.
UserQueries == { OriginalQuery, Surrogate }

\* Lines the text-generation capability may write.
LineSet == { <<>>, << SP >>, << "a" >>, << SP, "b", SP >>, << Surrogate >> }

\* Texts the capability may return for the angle prompt.
AngleTexts ==
    { JoinLines(ls) : ls \in UNION { [1..n -> LineSet] : n \in 1..MaxLines } }

\* Outcome of one chat.completions.create call: it raises, or it returns a
\* message whose content is None or a text.
LLMRaise == [raises |-> TRUE]
LLMNoContent == [raises |-> FALSE, hasContent |-> FALSE]
LLMText(t) == [raises |-> FALSE, hasContent |-> TRUE, content |-> t]

\* Bodies the assistant service may answer to a conversation creation.
CreateBodies ==
    { EmptyDict,
      [conversationId |-> "c1"],
      [conversationId |-> "", messageId |-> "m1"],
      [conversationId |-> "c1", messageId |-> "m1"],
      [conversationId |-> Surrogate, messageId |-> "m1"],
      [conversationId |-> "c1", messageId |-> Surrogate] }

SrcA == [sourceId |-> "A", title |-> "first"]
SrcB == [sourceId |-> "B", title |-> "second"]
\* The same citation as SrcA by its sourceId, with another title.
SrcA2 == [sourceId |-> "A", title |-> "first, page 2"]
\* A source the service sent without a sourceId.
SrcNoId == [title |-> "unidentified"]
\* A source the service sent with an empty sourceId.
SrcEmptyId == [sourceId |-> "", title |-> "blank id"]
\* A source the service sent with a null title.
SrcNoTitle == [sourceId |-> "C", title |-> None]
\* Sources the service sent with a title, or a sourceId, print() cannot encode.
SrcUnencodableTitle == [sourceId |-> "D", title |-> Surrogate]
SrcUnencodableId == [sourceId |-> Surrogate, title |-> "fifth"]

\* Bodies the assistant service may answer to a message fetch. The body
\* without a state is the answer in progress: get_message reads its state as
\* '', one of the states of line 86.
FetchBodies ==
    { EmptyDict,
      [state |-> "QUEUED", content |-> "partial"],
      [state |-> None],
      [state |-> "FAILED", error |-> "remote failure"],
      [state |-> "FAILED", error |-> "remote failure", sources |-> NoneList],
      [state |-> "completed", content |-> "answer A", sources |-> << SrcA >>],
      [state |-> "COMPLETED", content |-> "answer B", sources |-> << SrcB >>],
      [state |-> "COMPLETED", content |-> "answer C",
       sources |-> << SrcA2, SrcNoId, SrcEmptyId, SrcA, SrcB >>],
      [state |-> "COMPLETED", content |-> "answer", sources |-> NoneList],
      [state |-> "COMPLETED", content |-> "answer", sources |-> << SrcNoTitle >>],
      [state |-> "COMPLETED", content |-> "answer"],
      [state |-> Surrogate],
      [state |-> "FAILED", error |-> Surrogate],
      [state |-> "COMPLETED", content |-> "answer",
       sources |-> << SrcUnencodableTitle >>],
      [state |-> "COMPLETED", content |-> "answer",
       sources |-> << SrcA, SrcUnencodableId >>] }

\* A remote call raises requests.exceptions.RequestException, or answers a body.
HttpError == [httpError |-> TRUE]
IsHttpError(r) == r = HttpError

\* str.upper() on the state values the service is modelled to report.
Upper(s) ==
    CASE s = "completed" -> "COMPLETED"
      [] s = "processing" -> "PROCESSING"
      [] OTHER -> s

\* ------------------------------------------------------------------ errors
ErrCreateFailed == "Failed to create conversation. Response: ..."
ErrNoMessageId == "No message ID found. Response: ..."
\* str(e) of an exception that has one text in the program: the transport
\* error of requests, None.upper() at line 55 of get_message, and the read of
\* response_data at line 116 before any assignment (the wording of Python 3.11).
StrException(exc) ==
    CASE exc = "RequestException" -> "request failed"
      [] exc = "AttributeError" -> "'NoneType' object has no attribute 'upper'"
      [] exc = "UnboundLocalError" ->
             "cannot access local variable 'response_data' where it is not associated with a value"
\* str(e) of the TypeError of len(None), lines 67 and 68 of get_message.
StrTypeErrorLen == "object of type 'NoneType' has no len()"
\* str(e) of the TypeError of None[:50], line 73 of get_message.
StrTypeErrorSubscript == "'NoneType' object is not subscriptable"
RECURSIVE Text(_)
\* The str of an angle, which the model holds as its sequence of characters.
Text(a) == IF a = <<>> THEN "" ELSE Head(a) \o Text(Tail(a))
\* f"Exception processing angle '{angle}': {str(e)}" for the raised exception e
ErrException(angle, e) ==
    "Exception processing angle '" \o Text(angle) \o "': " \o e.str
ErrNothingToSynthesize == "No valid responses to synthesize"
ErrContradictions == "Error analyzing contradictions: capability failed"
ErrSynthesis == "Failed to synthesize report: capability failed"
\* str(e) of the exceptions orchestrate_query catches itself
MsgCapabilityFailed == "capability failed"
MsgNoContent == "'NoneType' object has no attribute 'split'"
MsgNotIterable == "'NoneType' object is not iterable"

\* ------------------------------------------------------------------- state
VARIABLES
    pc,               \* position of orchestrate_query
    query,            \* the query orchestrate_query was called with
    max_retries,      \* STRAVITO_POLL_MAX_RETRIES of this process
    angles,           \* angles returned by analyze_query_angles
    ready,            \* event loop: tasks scheduled and not yet started, in order
    running,          \* event loop: the task that holds the thread, 0 if none
    results,          \* result of each process_angle task, Pending until it returns
    stage,            \* position of the running task inside get_message
    conversation_id,  \* locals of the running process_angle
    message_id,
    retry_count,      \* locals of the running get_message
    response_data,
    gm,               \* how the running get_message ended
    polls,            \* answers to the fetches of the running get_message, in order
    raw_responses,    \* what asyncio.gather returned
    valid_responses,
    responses,        \* normalized_responses / analyzed_responses (one list object)
    result,           \* what orchestrate_query returned
    llm_calls,        \* purposes of the chat.completions.create calls made, in order
    llm_raised,       \* purposes of the calls among them that raised
    conv_calls,       \* the create_conversation calls made, in order: task and answer
    gm_log            \* per task, how its get_message call ended (GmNone: not called)

vars == << pc, query, max_retries, angles, ready, running, results, stage,
           conversation_id, message_id, retry_count, response_data, gm, polls,
           raw_responses, valid_responses, responses, result, llm_calls,
           llm_raised, conv_calls, gm_log >>

branchLocals == << stage, conversation_id, message_id, retry_count,
                   response_data, gm, polls >>
tailVars == << raw_responses, valid_responses, responses >>

Pending == [pending |-> TRUE]
NoResult == [pending |-> TRUE]
GmNone == [kind |-> "none"]
GmReturn(v) == [kind |-> "return", value |-> v]
GmRaise(e) == [kind |-> "raise", exc |-> e, str |-> StrException(e)]
GmRaiseStr(e, s) == [kind |-> "raise", exc |-> e, str |-> s]
\* print() raises on a log line: the text it cannot encode follows the prefix.
GmRaiseUnencodable(prefix) ==
    GmRaiseStr("UnicodeEncodeError", StrUnicodeEncodeError(Len(prefix), 1))
\* The entry asyncio.gather(return_exceptions=True) holds for a task that
\* raised: the exception object.
RaisedResult(e, s) == [exception |-> e, str |-> s]
\* isinstance(response, Exception), line 224
IsException(r) == "exception" \in DOMAIN r

NumAngles == Len(angles)

Init ==
    /\ pc = "start"
    /\ query \in UserQueries
    /\ max_retries \in 0..MaxRetries
    /\ angles = <<>>
    /\ ready = <<>>
    /\ running = 0
    /\ results = <<>>
    /\ stage = "idle"
    /\ conversation_id = None
    /\ message_id = None
    /\ retry_count = 0
    /\ response_data = Unbound
    /\ gm = GmNone
    /\ polls = <<>>
    /\ raw_responses = <<>>
    /\ valid_responses = <<>>
    /\ responses = <<>>
    /\ result = NoResult
    /\ llm_calls = <<>>
    /\ llm_raised = {}
    /\ conv_calls = <<>>
    /\ gm_log = <<>>

\* ------------------------------------------------------- orchestrate_query
\* The except clause of orchestrate_query, lines 258-264.
FailureResult(msg) ==
    [success |-> FALSE, error |-> msg, original_query |-> query]

\* Lines 208-218: the log line that carries the query, whose print() raises
\* for a query stdout cannot encode (34 characters precede the query); then
\* the angle-generation call, and one task per angle handed to asyncio.gather,
\* which schedules them on the event loop in angle order. Line 213 prints the
\* angles as a list, by their repr, which is encodable.
AnalyzeQueryAngles ==
    /\ pc = "start"
    /\ IF query = Surrogate
       THEN /\ result' = FailureResult(StrUnicodeEncodeError(34, 1))
            /\ pc' = "done"
            /\ UNCHANGED << angles, ready, results, gm_log, llm_calls, llm_raised >>
       ELSE /\ llm_calls' = Append(llm_calls, "angles")
            /\ \E r \in {LLMRaise, LLMNoContent}
                          \cup { LLMText(t) : t \in AngleTexts } :
                  /\ llm_raised' = IF r.raises THEN llm_raised \cup {"angles"}
                                               ELSE llm_raised
                  /\ IF r.raises \/ ~r.hasContent
                     THEN /\ result' = FailureResult(IF r.raises
                                                     THEN MsgCapabilityFailed
                                                     ELSE MsgNoContent)
                          /\ pc' = "done"
                          /\ UNCHANGED << angles, ready, results, gm_log >>
                     ELSE /\ angles' = ParseAngles(r.content)
                          /\ ready' = [i \in 1..Len(angles') |-> i]
                          /\ results' = [i \in 1..Len(angles') |-> Pending]
                          /\ gm_log' = [i \in 1..Len(angles') |-> GmNone]
                          /\ pc' = "gather"
                          /\ UNCHANGED result
    /\ UNCHANGED << query, max_retries, running, branchLocals, tailVars, conv_calls >>

\* ----------------------------------------------------------- process_angle
\* Lines 43 and 75-77 for an angle stdout cannot encode: the print of line 43
\* raises inside the try, and the print of line 77, inside the except clause,
\* raises again on the same angle (39 characters precede it), so the task ends
\* with that exception and line 78 is not reached.
PrintRaised(angle) ==
    RaisedResult("UnicodeEncodeError",
                 StrUnicodeEncodeError(39 + FirstUnencodable(angle),
                                       UnencodableRun(angle)))

ErrorResult(i, msg) == [angle |-> angles[i], error |-> msg, data |-> NoneData]

SuccessResult_WithoutIds(i, cid, mid, data) ==
    [angle |-> angles[i], data |-> data, error |-> None]

SuccessResult_FirstAngle(i, cid, mid, data) ==
    [angle |-> angles[1], conversation_id |-> cid, message_id |-> mid,
     data |-> data, error |-> None]

\* Lines 67-73.
SuccessResult(i, cid, mid, data) ==
    [angle |-> angles[i], conversation_id |-> cid, message_id |-> mid,
     data |-> data, error |-> None]

\* The event loop starts the next scheduled task. process_angle has no await,
\* so the task keeps the thread until it returns. Lines 42-64: the log line
\* that carries the angle, the creation call, whose log line (line 21 of
\* stravito_client.py) carries the conversation identifier, and the two
\* identifier checks; then get_message is entered, whose first log line (line
\* 43 of stravito_client.py) carries both identifiers. A print() that raises
\* there is caught by the except clause of lines 75-78.
StartTask(i) ==
    /\ pc = "gather"
    /\ running = 0
    /\ ready # <<>>
    /\ Head(ready) = i
    /\ ready' = Tail(ready)
    /\ IF ~Encodable(angles[i])
       THEN /\ results' = [results EXCEPT ![i] = PrintRaised(angles[i])]
            /\ UNCHANGED << running, branchLocals, conv_calls >>
       ELSE \E r \in {HttpError} \cup CreateBodies :
          /\ conv_calls' = Append(conv_calls, [task |-> i, answer |-> r])
          /\ IF IsHttpError(r)
             THEN /\ results' = [results EXCEPT ![i] =
                                    ErrorResult(i, ErrException(angles[i],
                                                   GmRaise("RequestException")))]
                  /\ UNCHANGED << running, branchLocals >>
             ELSE IF ~EncodableText(Get(r, "conversationId", None))
             THEN /\ results' = [results EXCEPT ![i] =
                                    ErrorResult(i, ErrException(angles[i],
                                        GmRaiseUnencodable(LogConversationCreated)))]
                  /\ UNCHANGED << running, branchLocals >>
             ELSE IF ~TruthyStr(Get(r, "conversationId", None))
             THEN /\ results' = [results EXCEPT ![i] = ErrorResult(i, ErrCreateFailed)]
                  /\ UNCHANGED << running, branchLocals >>
             ELSE IF ~TruthyStr(Get(r, "messageId", None))
             THEN /\ results' = [results EXCEPT ![i] = ErrorResult(i, ErrNoMessageId)]
                  /\ UNCHANGED << running, branchLocals >>
             ELSE /\ running' = i
                  /\ conversation_id' = r.conversationId
                  /\ message_id' = r.messageId
                  /\ retry_count' = 0
                  /\ response_data' = Unbound
                  /\ IF EncodableText(r.messageId)
                     THEN stage' = "poll" /\ gm' = GmNone
                     ELSE /\ stage' = "done"
                          /\ gm' = GmRaiseUnencodable(
                                       LogFetchingMessage(r.conversationId))
                  /\ polls' = <<>>
                  /\ UNCHANGED results
    /\ UNCHANGED << pc, query, max_retries, angles, tailVars, result, llm_calls, llm_raised, gm_log >>

\* ------------------------------------------------------------- get_message
InProgressStates == { "PROCESSING", "PENDING", "IN_PROGRESS", "" }

\* The log line of one source, line 73: the slice of its title raises
\* TypeError on None while the line is built, and print() raises on a sourceId
\* or a title it cannot encode.
SourceLogRaises(source) ==
    \/ Get(source, "title", "N/A") = None
    \/ ~EncodableText(Get(source, "sourceId", "N/A"))
    \/ ~EncodableText(Get(source, "title", "N/A"))
\* What line 73 raises for the k-th source.
SourceLogError(k, source) ==
    IF Get(source, "title", "N/A") = None
    THEN GmRaiseStr("TypeError", StrTypeErrorSubscript)
    ELSE IF ~EncodableText(Get(source, "sourceId", "N/A"))
    THEN GmRaiseUnencodable(LogSourceId(k))
    ELSE GmRaiseUnencodable(LogSourceTitle(k, Get(source, "sourceId", "N/A")))

\* The logging of a COMPLETED answer, lines 64-73: len() of the message and of
\* the sources, each raising TypeError on None, and a log line per source.
CompletedLogRaises(r) ==
    \/ Get(r, "message", "") = None
    \/ Get(r, "sources", <<>>) = NoneList
    \/ \E k \in 1..Len(Get(r, "sources", <<>>)) :
           SourceLogRaises(Get(r, "sources", <<>>)[k])

\* The exception of that logging, by the statement that raises first: the two
\* len() of lines 67 and 68 run before the loop of lines 72-73, which takes
\* the sources in order.
CompletedLogError(r) ==
    IF Get(r, "message", "") = None \/ Get(r, "sources", <<>>) = NoneList
    THEN GmRaiseStr("TypeError", StrTypeErrorLen)
    ELSE LET sources == Get(r, "sources", <<>>)
             k == CHOOSE n \in 1..Len(sources) :
                      /\ SourceLogRaises(sources[n])
                      /\ \A m \in 1..(n - 1) : ~SourceLogRaises(sources[m])
         IN  SourceLogError(k, sources[k])

\* The log lines of the FAILED arm, lines 81-83: the second carries the error
\* text of the service.
FailedLogRaises(r) == ~EncodableText(Get(r, "error", "Unknown error"))

Fetch_UnknownNotCounted(i) ==
    /\ running = i
    /\ stage = "poll"
    /\ retry_count < max_retries
    /\ \E r \in {HttpError} \cup FetchBodies :
          /\ polls' = Append(polls, r)
          /\ IF IsHttpError(r)
             THEN /\ retry_count' = retry_count + 1
                  /\ UNCHANGED response_data
                  /\ IF retry_count + 1 < max_retries
                     THEN stage' = "sleep" /\ UNCHANGED gm
                     ELSE stage' = "done" /\ gm' = GmRaise("RequestException")
             ELSE /\ response_data' = r
                  /\ IF Get(r, "state", "") = None
                     THEN /\ stage' = "done"
                          /\ gm' = GmRaise("AttributeError")
                          /\ UNCHANGED retry_count
                     ELSE LET state == Upper(Get(r, "state", ""))
                          IN  IF ~EncodableText(state)
                              THEN /\ stage' = "done"
                                   /\ gm' = GmRaiseUnencodable(LogPoll(retry_count + 1))
                                   /\ UNCHANGED retry_count
                              ELSE IF state = "COMPLETED"
                              THEN /\ stage' = "done"
                                   /\ gm' = IF CompletedLogRaises(r)
                                             THEN CompletedLogError(r)
                                             ELSE GmReturn(r)
                                   /\ UNCHANGED retry_count
                              ELSE IF state = "FAILED" \/ state = "ERROR"
                              THEN /\ stage' = "done"
                                   /\ gm' = IF FailedLogRaises(r)
                                             THEN GmRaiseUnencodable(LogErrorMessage)
                                             ELSE GmReturn(r)
                                   /\ UNCHANGED retry_count
                              ELSE IF state \in InProgressStates
                              THEN /\ retry_count' = retry_count + 1
                                   /\ stage' = "sleep"
                                   /\ UNCHANGED gm
                              ELSE /\ UNCHANGED retry_count
                                   /\ stage' = "sleep"
                                   /\ UNCHANGED gm
    /\ UNCHANGED << pc, query, max_retries, angles, ready, running, results,
                    conversation_id, message_id, tailVars, result, llm_calls, llm_raised,
                    conv_calls, gm_log >>

Fetch_RaisesAtOnce(i) ==
    /\ running = i
    /\ stage = "poll"
    /\ retry_count < max_retries
    /\ \E r \in {HttpError} \cup FetchBodies :
          /\ polls' = Append(polls, r)
          /\ IF IsHttpError(r)
             THEN /\ retry_count' = retry_count + 1
                  /\ UNCHANGED response_data
                  /\ stage' = "done"
                  /\ gm' = GmRaise("RequestException")
             ELSE /\ response_data' = r
                  /\ IF Get(r, "state", "") = None
                     THEN /\ stage' = "done"
                          /\ gm' = GmRaise("AttributeError")
                          /\ UNCHANGED retry_count
                     ELSE LET state == Upper(Get(r, "state", ""))
                          IN  IF ~EncodableText(state)
                              THEN /\ stage' = "done"
                                   /\ gm' = GmRaiseUnencodable(LogPoll(retry_count + 1))
                                   /\ UNCHANGED retry_count
                              ELSE IF state = "COMPLETED"
                              THEN /\ stage' = "done"
                                   /\ gm' = IF CompletedLogRaises(r)
                                             THEN CompletedLogError(r)
                                             ELSE GmReturn(r)
                                   /\ UNCHANGED retry_count
                              ELSE IF state = "FAILED" \/ state = "ERROR"
                              THEN /\ stage' = "done"
                                   /\ gm' = IF FailedLogRaises(r)
                                             THEN GmRaiseUnencodable(LogErrorMessage)
                                             ELSE GmReturn(r)
                                   /\ UNCHANGED retry_count
                              ELSE IF state \in InProgressStates
                              THEN /\ retry_count' = retry_count + 1
                                   /\ stage' = "sleep"
                                   /\ UNCHANGED gm
                              ELSE \* an unknown state, lines 97-100
                                   /\ retry_count' = retry_count + 1
                                   /\ stage' = "sleep"
                                   /\ UNCHANGED gm
    /\ UNCHANGED << pc, query, max_retries, angles, ready, running, results,
                    conversation_id, message_id, tailVars, result, llm_calls, llm_raised,
                    conv_calls, gm_log >>

\* One iteration of the while loop, lines 48-108: the fetch and what the code
\* does with its answer, up to the time.sleep or the return or the raise. The
\* log line of line 57 carries the state and those of lines 73 and 83 carry
\* texts of the body: a print() that raises there ends get_message, since
\* UnicodeEncodeError is no RequestException.
Fetch(i) ==
    /\ running = i
    /\ stage = "poll"
    /\ retry_count < max_retries
    /\ \E r \in {HttpError} \cup FetchBodies :
          /\ polls' = Append(polls, r)
          /\ IF IsHttpError(r)
             THEN /\ retry_count' = retry_count + 1
                  /\ UNCHANGED response_data
                  /\ IF retry_count + 1 < max_retries
                     THEN stage' = "sleep" /\ UNCHANGED gm
                     ELSE stage' = "done" /\ gm' = GmRaise("RequestException")
             ELSE /\ response_data' = r
                  /\ IF Get(r, "state", "") = None
                     THEN /\ stage' = "done"
                          /\ gm' = GmRaise("AttributeError")
                          /\ UNCHANGED retry_count
                     ELSE LET state == Upper(Get(r, "state", ""))
                          IN  IF ~EncodableText(state)
                              THEN /\ stage' = "done"
                                   /\ gm' = GmRaiseUnencodable(LogPoll(retry_count + 1))
                                   /\ UNCHANGED retry_count
                              ELSE IF state = "COMPLETED"
                              THEN /\ stage' = "done"
                                   /\ gm' = IF CompletedLogRaises(r)
                                             THEN CompletedLogError(r)
                                             ELSE GmReturn(r)
                                   /\ UNCHANGED retry_count
                              ELSE IF state = "FAILED" \/ state = "ERROR"
                              THEN /\ stage' = "done"
                                   /\ gm' = IF FailedLogRaises(r)
                                             THEN GmRaiseUnencodable(LogErrorMessage)
                                             ELSE GmReturn(r)
                                   /\ UNCHANGED retry_count
                              ELSE IF state \in InProgressStates
                              THEN /\ retry_count' = retry_count + 1
                                   /\ stage' = "sleep"
                                   /\ UNCHANGED gm
                              ELSE \* an unknown state, lines 97-100
                                   /\ retry_count' = retry_count + 1
                                   /\ stage' = "sleep"
                                   /\ UNCHANGED gm
    /\ UNCHANGED << pc, query, max_retries, angles, ready, running, results,
                    conversation_id, message_id, tailVars, result, llm_calls, llm_raised,
                    conv_calls, gm_log >>

\* time.sleep(retry_interval) returns, lines 95, 100, 106. The sleep blocks the
\* thread: the task is still the running one.
Wake(i) ==
    /\ running = i
    /\ stage = "sleep"
    /\ stage' = "poll"
    /\ UNCHANGED << pc, query, max_retries, angles, ready, running, results,
                    conversation_id, message_id, retry_count, response_data, gm,
                    polls, tailVars, result, llm_calls, llm_raised, conv_calls, gm_log >>

PollTimeout_ReturnsEmpty(i) ==
    /\ running = i
    /\ stage = "poll"
    /\ ~(retry_count < max_retries)
    /\ stage' = "done"
    /\ gm' = IF response_data = Unbound THEN GmReturn(EmptyDict)
                                        ELSE GmReturn(response_data)
    /\ UNCHANGED << pc, query, max_retries, angles, ready, running, results,
                    conversation_id, message_id, retry_count, response_data,
                    polls, tailVars, result, llm_calls, llm_raised, conv_calls, gm_log >>

PollTimeout_ReturnsFirst(i) ==
    /\ running = i
    /\ stage = "poll"
    /\ ~(retry_count < max_retries)
    /\ stage' = "done"
    /\ gm' = IF response_data = Unbound THEN GmRaise("UnboundLocalError")
             ELSE GmReturn(Head(SelectSeq(polls, LAMBDA r : ~IsHttpError(r))))
    /\ UNCHANGED << pc, query, max_retries, angles, ready, running, results,
                    conversation_id, message_id, retry_count, response_data,
                    polls, tailVars, result, llm_calls, llm_raised, conv_calls, gm_log >>

\* The loop condition fails, lines 110-116: return the last response, which is
\* an unassigned local if no fetch ever answered.
PollTimeout(i) ==
    /\ running = i
    /\ stage = "poll"
    /\ ~(retry_count < max_retries)
    /\ stage' = "done"
    /\ gm' = IF response_data = Unbound THEN GmRaise("UnboundLocalError")
                                        ELSE GmReturn(response_data)
    /\ UNCHANGED << pc, query, max_retries, angles, ready, running, results,
                    conversation_id, message_id, retry_count, response_data,
                    polls, tailVars, result, llm_calls, llm_raised, conv_calls, gm_log >>

\* get_message has returned or raised: lines 67-78 build the task's result, and
\* the task ends, which frees the thread.
FinishTask(i) ==
    /\ running = i
    /\ stage = "done"
    /\ results' = [results EXCEPT ![i] =
                      IF gm.kind = "return"
                      THEN SuccessResult(i, conversation_id, message_id, gm.value)
                      ELSE ErrorResult(i, ErrException(angles[i], gm))]
    /\ gm_log' = [gm_log EXCEPT ![i] = gm]
    /\ running' = 0
    /\ stage' = "idle"
    /\ conversation_id' = None
    /\ message_id' = None
    /\ retry_count' = 0
    /\ response_data' = Unbound
    /\ gm' = GmNone
    /\ polls' = <<>>
    /\ UNCHANGED << pc, query, max_retries, angles, ready, tailVars, result, llm_calls, llm_raised,
                    conv_calls >>

\* ------------------------------------------------- the stages after fan-out
IsValid_Always(r) == TRUE

\* Lines 222-231: an entry that is an exception is skipped, and a dict is kept
\* when its error is None.
IsValid(r) == ~IsException(r) /\ Get(r, "error", None) = None
ValidResponses(raw) == SelectSeq(raw, IsValid)

\* normalize_responses, lines 84-90: the entries that are kept.
IsNormalizable(r) ==
    /\ ~TruthyStr(Get(r, "error", None))
    /\ TruthyData(Get(r, "data", EmptyDict))

\* normalize_responses, lines 93-102.
NormalizedResponse(r) ==
    [angle |-> r.angle,
     conversation_id |-> r.conversation_id,
     message_id |-> r.message_id,
     content |-> Get(r.data, "content", ""),
     metadata |-> Get(r.data, "metadata", EmptyDict),
     timestamp |-> Get(r.data, "timestamp", ""),
     status |-> Get(r.data, "status", ""),
     sources |-> Get(r.data, "sources", <<>>)]

normalize_responses(rs) ==
    LET kept == SelectSeq(rs, IsNormalizable)
    IN  [i \in 1..Len(kept) |-> NormalizedResponse(kept[i])]

GatherReturn_FailFast ==
    /\ pc = "gather"
    /\ running = 0
    /\ \/ ready = <<>>
       \/ \E i \in 1..NumAngles : Get(results[i], "error", None) # None
    /\ raw_responses' = results
    /\ valid_responses' = ValidResponses(results)
    /\ responses' = normalize_responses(ValidResponses(results))
    /\ pc' = "contradictions"
    /\ UNCHANGED << query, max_retries, angles, ready, running, results, branchLocals,
                    result, llm_calls, llm_raised, conv_calls, gm_log >>

\* Lines 218-237: gather returns once every task has ended; its list is in task
\* order. Then the filter and normalize_responses.
GatherReturn ==
    /\ pc = "gather"
    /\ running = 0
    /\ ready = <<>>
    /\ raw_responses' = results
    /\ valid_responses' = ValidResponses(results)
    /\ responses' = normalize_responses(ValidResponses(results))
    /\ pc' = "contradictions"
    /\ UNCHANGED << query, max_retries, angles, ready, running, results, branchLocals,
                    result, llm_calls, llm_raised, conv_calls, gm_log >>

Annotate_FirstOnly(rs, analysis) ==
    [i \in 1..Len(rs) |->
        IF i > 1 THEN rs[i]
        ELSE [k \in DOMAIN rs[i] \cup {"contradiction_analysis"} |->
                 IF k = "contradiction_analysis" THEN analysis ELSE rs[i][k]]]

\* check_contradictions, lines 139-144: the same value attached to every entry.
Annotate(rs, analysis) ==
    [i \in 1..Len(rs) |->
        [k \in DOMAIN rs[i] \cup {"contradiction_analysis"} |->
            IF k = "contradiction_analysis" THEN analysis ELSE rs[i][k]]]

AnalysisText == "analysis"

CheckContradictions_NoShortCircuit ==
    /\ pc = "contradictions"
    /\ IF Len(responses) < 1
       THEN UNCHANGED << responses, llm_calls, llm_raised >>
       ELSE /\ llm_calls' = Append(llm_calls, "contradictions")
            /\ \E r \in {LLMRaise, LLMNoContent, LLMText(AnalysisText)} :
                  /\ llm_raised' = IF r.raises
                                    THEN llm_raised \cup {"contradictions"}
                                    ELSE llm_raised
                  /\ responses' =
                      Annotate(responses,
                               IF r.raises THEN ErrContradictions
                               ELSE IF r.hasContent THEN r.content ELSE None)
    /\ pc' = "synthesize"
    /\ UNCHANGED << query, max_retries, angles, ready, running, results, branchLocals,
                    raw_responses, valid_responses, result, conv_calls, gm_log >>

\* check_contradictions, lines 107-146.
CheckContradictions ==
    /\ pc = "contradictions"
    /\ IF Len(responses) < 2
       THEN UNCHANGED << responses, llm_calls, llm_raised >>
       ELSE /\ llm_calls' = Append(llm_calls, "contradictions")
            /\ \E r \in {LLMRaise, LLMNoContent, LLMText(AnalysisText)} :
                  /\ llm_raised' = IF r.raises
                                    THEN llm_raised \cup {"contradictions"}
                                    ELSE llm_raised
                  /\ responses' =
                      Annotate(responses,
                               IF r.raises THEN ErrContradictions
                               ELSE IF r.hasContent THEN r.content ELSE None)
    /\ pc' = "synthesize"
    /\ UNCHANGED << query, max_retries, angles, ready, running, results, branchLocals,
                    raw_responses, valid_responses, result, conv_calls, gm_log >>

\* synthesize_report, line 161 iterates r.get('sources', []): iterating None
\* raises TypeError.
SourcesIterable(rs) == \A i \in 1..Len(rs) : Get(rs[i], "sources", <<>>) # NoneList

RECURSIVE ConcatSources_Reversed(_)
ConcatSources_Reversed(rs) ==
    IF rs = <<>> THEN <<>>
    ELSE ConcatSources_Reversed(Tail(rs)) \o Get(Head(rs), "sources", <<>>)

RECURSIVE ConcatSources(_)
\* The sources in walk order: responses in order, each one's sources in order.
ConcatSources(rs) ==
    IF rs = <<>> THEN <<>>
    ELSE Get(Head(rs), "sources", <<>>) \o ConcatSources(Tail(rs))

RECURSIVE Dedup_KeepsUnidentified(_, _)
Dedup_KeepsUnidentified(walk, seen) ==
    IF walk = <<>> THEN <<>>
    ELSE LET source_id == Get(Head(walk), "sourceId", None)
         IN  IF ~TruthyStr(source_id)
             THEN << Head(walk) >> \o Dedup_KeepsUnidentified(Tail(walk), seen)
             ELSE IF source_id \notin seen
             THEN << Head(walk) >>
                      \o Dedup_KeepsUnidentified(Tail(walk), seen \cup {source_id})
             ELSE Dedup_KeepsUnidentified(Tail(walk), seen)

RECURSIVE Dedup_KeepsAll(_, _)
Dedup_KeepsAll(walk, seen) ==
    IF walk = <<>> THEN <<>>
    ELSE LET source_id == Get(Head(walk), "sourceId", None)
         IN  IF TruthyStr(source_id) /\ source_id \notin seen
             THEN << Head(walk) >> \o Dedup_KeepsAll(Tail(walk), seen)
             ELSE Dedup_KeepsAll(Tail(walk), seen)

RECURSIVE Dedup(_, _)
\* Lines 161-165 on the walk: a source is kept if its sourceId is truthy and
\* is not yet in source_map.
Dedup(walk, seen) ==
    IF walk = <<>> THEN <<>>
    ELSE LET source_id == Get(Head(walk), "sourceId", None)
         IN  IF TruthyStr(source_id) /\ source_id \notin seen
             THEN << Head(walk) >> \o Dedup(Tail(walk), seen \cup {source_id})
             ELSE Dedup(Tail(walk), seen)

all_sources_Rotated(rs) ==
    LET d == Dedup(ConcatSources(rs), {})
    IN  IF d = <<>> THEN d ELSE Tail(d) \o << Head(d) >>

all_sources(rs) == Dedup(ConcatSources(rs), {})

ReportText == "report"

Report_AllGeneratedAngles(rs, text) ==
    [original_query |-> query,
     synthesized_report |-> text,
     source_angles |-> angles,
     total_angles_processed |-> Len(angles),
     sources |-> all_sources(rs),
     timestamp |-> "loop time"]

\* Lines 193-200.
Report(rs, text) ==
    [original_query |-> query,
     synthesized_report |-> text,
     source_angles |-> [i \in 1..Len(rs) |-> rs[i].angle],
     total_angles_processed |-> Len(rs),
     sources |-> all_sources(rs),
     timestamp |-> "loop time"]

\* Lines 249-256.
SuccessResultOf(report) ==
    [success |-> TRUE,
     original_query |-> query,
     angles_generated |-> angles,
     responses_processed |-> Len(valid_responses),
     final_report |-> report,
     raw_responses |-> responses]

SynthesizeReport_RetriesOnce ==
    /\ pc = "synthesize"
    /\ pc' = "done"
    /\ IF responses = <<>>
       THEN /\ result' = SuccessResultOf([error |-> ErrNothingToSynthesize])
            /\ UNCHANGED << llm_calls, llm_raised >>
       ELSE IF ~SourcesIterable(responses)
       THEN /\ result' = FailureResult(MsgNotIterable)
            /\ UNCHANGED << llm_calls, llm_raised >>
       ELSE /\ \E r \in {LLMRaise, LLMNoContent, LLMText(ReportText)} :
                  /\ llm_calls' = IF r.raises
                                   THEN llm_calls \o << "synthesis", "synthesis" >>
                                   ELSE Append(llm_calls, "synthesis")
                  /\ llm_raised' = IF r.raises
                                    THEN llm_raised \cup {"synthesis"}
                                    ELSE llm_raised
                  /\ result' = SuccessResultOf(
                      IF r.raises THEN [error |-> ErrSynthesis]
                      ELSE Report(responses,
                                  IF r.hasContent THEN r.content ELSE None))
    /\ UNCHANGED << query, max_retries, angles, ready, running, results, branchLocals,
                    tailVars, conv_calls, gm_log >>

\* synthesize_report, lines 148-203, and the return of orchestrate_query.
SynthesizeReport ==
    /\ pc = "synthesize"
    /\ pc' = "done"
    /\ IF responses = <<>>
       THEN /\ result' = SuccessResultOf([error |-> ErrNothingToSynthesize])
            /\ UNCHANGED << llm_calls, llm_raised >>
       ELSE IF ~SourcesIterable(responses)
       THEN /\ result' = FailureResult(MsgNotIterable)
            /\ UNCHANGED << llm_calls, llm_raised >>
       ELSE /\ llm_calls' = Append(llm_calls, "synthesis")
            /\ \E r \in {LLMRaise, LLMNoContent, LLMText(ReportText)} :
                  /\ llm_raised' = IF r.raises
                                    THEN llm_raised \cup {"synthesis"}
                                    ELSE llm_raised
                  /\ result' = SuccessResultOf(
                      IF r.raises THEN [error |-> ErrSynthesis]
                      ELSE Report(responses,
                                  IF r.hasContent THEN r.content ELSE None))
    /\ UNCHANGED << query, max_retries, angles, ready, running, results, branchLocals,
                    tailVars, conv_calls, gm_log >>

\* ------------------------------------------------------------ specification
Tasks == 1..MaxLines

Next ==
    \/ AnalyzeQueryAngles
    \/ \E i \in Tasks : StartTask(i)
    \/ \E i \in Tasks : Fetch(i)
    \/ \E i \in Tasks : Wake(i)
    \/ \E i \in Tasks : PollTimeout(i)
    \/ \E i \in Tasks : FinishTask(i)
    \/ GatherReturn
    \/ CheckContradictions
    \/ SynthesizeReport

Spec == Init /\ [][Next]_vars

\* ------------------------------------------------- MockQueryOrchestrator
\* A query is a sequence of words; these are told apart by the substring tests
\* of analyze_query_angles.
QueryWords ==
    { "AI", "ai", "Artificial Intelligence", "Climate", "quantum", Surrogate }
Queries == UNION { [1..n -> QueryWords] : n \in 0..MaxWords }

\* str.lower() on the words of a query.
Lower(w) ==
    CASE w = "AI" -> "ai"
      [] w = "Artificial Intelligence" -> "artificial intelligence"
      [] w = "Climate" -> "climate"
      [] OTHER -> w
\* `"AI" in query`: the test is on the query as written.
ContainsAI(q) == \E k \in 1..Len(q) : q[k] = "AI"
\* `text in query.lower()`
LowerContains(q, text) == \E k \in 1..Len(q) : Lower(q[k]) = text

\* analyze_query_angles of the mock, lines 14-34.
MockAngles(q) ==
    IF ContainsAI(q) \/ LowerContains(q, "artificial intelligence")
    THEN << "What are the latest technological breakthroughs in AI?",
            "How is AI adoption changing across different industries?",
            "What are the ethical implications of current AI developments?",
            "What are the key challenges in AI implementation?" >>
    ELSE IF LowerContains(q, "climate")
    THEN << "What are the current climate change mitigation strategies?",
            "How is climate change affecting global economies?",
            "What are the latest renewable energy innovations?",
            "What are the social impacts of climate change?" >>
    ELSE << << "What are the key aspects of", q >>,
            << "How does it impact different sectors", q >>,
            << "What are the challenges related to", q >>,
            << "What are the future trends in", q >> >>

\* process_angle of the mock, lines 46-72: what it returns for an angle.
MockMessageData(angle) ==
    [id |-> << "msg", angle >>,
     content |-> << "Mock response for", angle >>,
     status |-> "completed",
     timestamp |-> "2024-01-01T12:00:00Z",
     metadata |-> [source |-> "mock_XXXX_api", confidence |-> "0.85",
                   processing_time |-> "0.5s"]]
MockResult(angle) ==
    [angle |-> angle,
     conversation_id |-> << "conv", angle >>,
     message_id |-> << "msg", angle >>,
     data |-> MockMessageData(angle),
     error |-> None]

\* normalize_responses of the mock, lines 86-104: no sources field.
MockNormalizedResponse(r) ==
    [angle |-> r.angle,
     conversation_id |-> r.conversation_id,
     message_id |-> r.message_id,
     content |-> Get(r.data, "content", ""),
     metadata |-> Get(r.data, "metadata", EmptyDict),
     timestamp |-> Get(r.data, "timestamp", ""),
     status |-> Get(r.data, "status", "")]
Mock_normalize_responses(rs) ==
    LET kept == SelectSeq(rs, IsNormalizable)
    IN  [i \in 1..Len(kept) |-> MockNormalizedResponse(kept[i])]

\* json.dumps(mock_analysis), lines 118-127.
MockAnalysisText == "mock analysis"

\* synthesize_report of the mock, lines 197-203.
MockReport(rs) ==
    [original_query |-> query,
     synthesized_report |-> "mock report",
     source_angles |-> [i \in 1..Len(rs) |-> rs[i].angle],
     total_angles_processed |-> Len(rs),
     timestamp |-> "loop time"]

InitMock ==
    /\ pc = "start"
    /\ query \in Queries
    /\ max_retries = 0
    /\ angles = <<>>
    /\ ready = <<>>
    /\ running = 0
    /\ results = <<>>
    /\ stage = "idle"
    /\ conversation_id = None
    /\ message_id = None
    /\ retry_count = 0
    /\ response_data = Unbound
    /\ gm = GmNone
    /\ polls = <<>>
    /\ raw_responses = <<>>
    /\ valid_responses = <<>>
    /\ responses = <<>>
    /\ result = NoResult
    /\ llm_calls = <<>>
    /\ llm_raised = {}
    /\ conv_calls = <<>>
    /\ gm_log = <<>>

RECURSIVE QueryLen(_)
\* len() of the query, whose words a single space separates; the surrogate is
\* one character.
QueryLen(q) ==
    IF q = <<>> THEN 0
    ELSE (IF Head(q) = Surrogate THEN 1 ELSE Len(Head(q)))
         + (IF Len(q) > 1 THEN 1 + QueryLen(Tail(q)) ELSE 0)
\* The 0-based position, in the query, of the first character print() cannot
\* encode.
MockFirstUnencodable(q) ==
    LET k == FirstUnencodable(q) + 1
    IN  IF k = 1 THEN 0 ELSE QueryLen(SubSeq(q, 1, k - 1)) + 1

\* orchestrate_query of the mock, lines 208-217: the log line that carries the
\* query, whose print() raises for a query stdout cannot encode (42 characters
\* precede the query; a space separates the words, so no two such characters
\* are adjacent) and sends the call to the except arm of lines 257-263;
\* then the angles, and one task per angle handed to asyncio.gather.
MockAnalyzeQueryAngles ==
    /\ pc = "start"
    /\ IF ~Encodable(query)
       THEN /\ result' = FailureResult(
                             StrUnicodeEncodeError(42 + MockFirstUnencodable(query), 1))
            /\ pc' = "done"
            /\ UNCHANGED << angles, ready, results >>
       ELSE /\ angles' = MockAngles(query)
            /\ ready' = [i \in 1..Len(angles') |-> i]
            /\ results' = [i \in 1..Len(angles') |-> Pending]
            /\ pc' = "gather"
            /\ UNCHANGED result
    /\ UNCHANGED << query, max_retries, running, branchLocals, tailVars,
                    llm_calls, llm_raised, conv_calls, gm_log >>

\* The task has been started and waits in asyncio.sleep(0.5), line 45.
MockAsleep(i) ==
    /\ i \in 1..Len(results)
    /\ results[i] = Pending
    /\ \A k \in 1..Len(ready) : ready[k] # i

\* The event loop starts the next task, which runs up to its await.
MockStartTask(i) ==
    /\ pc = "gather"
    /\ ready # <<>>
    /\ Head(ready) = i
    /\ ready' = Tail(ready)
    /\ UNCHANGED << pc, query, max_retries, angles, running, results,
                    branchLocals, tailVars, result, llm_calls, llm_raised,
                    conv_calls, gm_log >>

\* The sleep of a task is over and the task returns, lines 47-72.
MockWake(i) ==
    /\ pc = "gather"
    /\ MockAsleep(i)
    /\ results' = [results EXCEPT ![i] = MockResult(angles[i])]
    /\ UNCHANGED << pc, query, max_retries, angles, ready, running,
                    branchLocals, tailVars, result, llm_calls, llm_raised,
                    conv_calls, gm_log >>

\* Lines 218-237 of the mock: gather returns, the filter, normalize_responses.
MockGatherReturn ==
    /\ pc = "gather"
    /\ ready = <<>>
    /\ \A i \in 1..Len(results) : results[i] # Pending
    /\ raw_responses' = results
    /\ valid_responses' = ValidResponses(results)
    /\ responses' = Mock_normalize_responses(ValidResponses(results))
    /\ pc' = "contradictions"
    /\ UNCHANGED << query, max_retries, angles, ready, running, results,
                    branchLocals, result, llm_calls, llm_raised, conv_calls,
                    gm_log >>

\* check_contradictions of the mock, lines 108-133.
MockCheckContradictions ==
    /\ pc = "contradictions"
    /\ responses' = IF Len(responses) < 2 THEN responses
                    ELSE Annotate(responses, MockAnalysisText)
    /\ pc' = "synthesize"
    /\ UNCHANGED << query, max_retries, angles, ready, running, results,
                    branchLocals, raw_responses, valid_responses, result,
                    llm_calls, llm_raised, conv_calls, gm_log >>

\* synthesize_report of the mock, lines 135-203, and the return of its
\* orchestrate_query, lines 248-255.
MockSynthesizeReport ==
    /\ pc = "synthesize"
    /\ result' = SuccessResultOf(IF responses = <<>>
                                 THEN [error |-> ErrNothingToSynthesize]
                                 ELSE MockReport(responses))
    /\ pc' = "done"
    /\ UNCHANGED << query, max_retries, angles, ready, running, results,
                    branchLocals, tailVars, llm_calls, llm_raised, conv_calls,
                    gm_log >>

NextMock ==
    \/ MockAnalyzeQueryAngles
    \/ \E i \in 1..Len(angles) : MockStartTask(i)
    \/ \E i \in 1..Len(angles) : MockWake(i)
    \/ MockGatherReturn
    \/ MockCheckContradictions
    \/ MockSynthesizeReport

SpecMock == InitMock /\ [][NextMock]_vars

\* ------------------------------------------------------------------ claims
Returned == pc = "done"
Succeeded == Returned /\ result.success
\* asyncio.gather has returned.
Gathered == pc \in {"contradictions", "synthesize", "done"}

\* The answer the create_conversation call of task i received.
Called(i) == \E k \in 1..Len(conv_calls) : conv_calls[k].task = i
CreateAnswer(i) ==
    conv_calls[CHOOSE k \in 1..Len(conv_calls) : conv_calls[k].task = i].answer
\* The task has ended.
Ended(i) == i \in 1..NumAngles /\ Called(i) /\ running # i
\* process_angle of task i raised: its outcome is an exception object.
Raised(i) == IsException(results[i])
\* process_angle of task i returned or raised.
HasOutcome(i) == results[i] # Pending

CreationRaised(i) == Called(i) /\ CreateAnswer(i) = HttpError
NoConversationId(i) ==
    /\ Called(i)
    /\ LET a == CreateAnswer(i)
       IN  a # HttpError /\ Get(a, "conversationId", "") = ""
NoMessageId(i) ==
    /\ Called(i)
    /\ LET a == CreateAnswer(i)
       IN  /\ a # HttpError
           /\ Get(a, "conversationId", "") # ""
           /\ "messageId" \notin DOMAIN a
PollingRaised(i) == gm_log[i].kind = "raise"
PollingReturned(i) == gm_log[i].kind = "return"

\* What a fetch answered, read off the body (the state in either letter case).
AnsweredCompleted(a) ==
    a # HttpError /\ "state" \in DOMAIN a /\ a.state \in {"COMPLETED", "completed"}
\* A state that is in progress, or one the code does not know: QUEUED, and
\* the one-character state print() cannot encode.
AnsweredNonTerminal(a) ==
    /\ a # HttpError
    /\ \/ "state" \notin DOMAIN a
       \/ a.state \in {"PROCESSING", "processing", "PENDING", "IN_PROGRESS",
                       "QUEUED", "", Surrogate}
\* The fetch answered a state print() cannot encode.
AnsweredUnencodable(a) ==
    a # HttpError /\ "state" \in DOMAIN a /\ a.state = Surrogate

\* C1: in every result that carries them, responses_processed equals the
\* length of raw_responses, and both are at most the number of angles.
C1_ProcessedEqualsRaw ==
    Succeeded =>
        /\ result.responses_processed = Len(result.raw_responses)
        /\ result.responses_processed <= Len(result.angles_generated)

\* C2: when no angle was generated, the result is a failure with a non-empty
\* error, and no branch was launched.
C2_NoAnglesIsFailure ==
    (Returned /\ angles = <<>>) =>
        /\ ~result.success
        /\ result.error # ""
        /\ conv_calls = <<>>

\* Every branch of a non-empty fan-out ended with an error.
AllBranchesFailed ==
    /\ NumAngles >= 1
    /\ \A i \in 1..NumAngles :
          HasOutcome(i) /\ (Raised(i) \/ results[i].error # None)

\* C3, as amended: when at least one angle was generated and every branch
\* failed, the result has success true, responses_processed 0, no raw
\* response and a final report that is only the error "No valid responses to
\* synthesize"; the capability was called for the angles and for nothing else.
C3_AllBranchesFail ==
    (Returned /\ AllBranchesFailed) =>
        /\ result.success
        /\ result.responses_processed = 0
        /\ result.raw_responses = <<>>
        /\ result.final_report = [error |-> ErrNothingToSynthesize]
        /\ llm_calls = << "angles" >>

\* C3, witness: two angles, both branches failed, the query has returned.
C3_Witness == Returned /\ AllBranchesFailed /\ NumAngles = 2

\* C3, as stated: the error of the final report reads "no_valid_responses".
C3_Original ==
    (Returned /\ AllBranchesFailed) =>
        /\ result.success
        /\ result.responses_processed = 0
        /\ result.raw_responses = <<>>
        /\ result.final_report = [error |-> "no_valid_responses"]
        /\ llm_calls = << "angles" >>

\* C4: a failure result carries exactly success, error and original_query, and
\* no conversation was created with the assistant service.
C4_FailureHasNoSideEffect ==
    (Returned /\ ~result.success) =>
        /\ DOMAIN result = {"success", "error", "original_query"}
        /\ conv_calls = <<>>

\* The branch of task j ran with nothing failing: the creation answered both
\* identifiers and get_message returned.
BranchHealthy(j) ==
    /\ PollingReturned(j)
    /\ ~CreationRaised(j) /\ ~NoConversationId(j) /\ ~NoMessageId(j)

\* C5: when exactly one branch's creation call failed, the fan-out has one
\* outcome per angle; the failing branch's outcome carries an error; every
\* other outcome is at its angle's position and is what its own exchange
\* determines; and if the other branches ran with nothing failing, exactly one
\* outcome carries an error.
C5_FailureIsolation ==
    (Gathered /\ Cardinality({i \in 1..NumAngles : CreationRaised(i)}) = 1) =>
        /\ Len(raw_responses) = NumAngles
        /\ \A j \in 1..NumAngles :
              /\ ~Raised(j) => raw_responses[j].angle = angles[j]
              /\ CreationRaised(j) => raw_responses[j].error # None
              /\ BranchHealthy(j) =>
                    /\ raw_responses[j].error = None
                    /\ raw_responses[j].data = gm_log[j].value
                    /\ raw_responses[j].conversation_id = CreateAnswer(j).conversationId
                    /\ raw_responses[j].message_id = CreateAnswer(j).messageId
        /\ (\A j \in 1..NumAngles : CreationRaised(j) \/ BranchHealthy(j)) =>
              Cardinality({j \in 1..NumAngles : raw_responses[j].error # None}) = 1

\* C5, witness: two distinct angles, the first branch's creation failed and the
\* second branch ran with nothing failing.
C5_Witness ==
    /\ Gathered
    /\ NumAngles = 2
    /\ angles[1] # angles[2]
    /\ CreationRaised(1)
    /\ BranchHealthy(2)
    /\ raw_responses[2].error = None

\* C6: the fan-out returns one outcome per angle, the one at position i being
\* the outcome of the task of angle i; every outcome is a result for its angle,
\* none an exception, and a branch whose creation call or polling raised is
\* there as a failed result for its angle.
C6_OneOutcomePerAngle ==
    Gathered =>
        /\ Len(raw_responses) = NumAngles
        /\ raw_responses = results
        /\ \A i \in 1..NumAngles :
              /\ raw_responses[i] # Pending
              /\ ~IsException(raw_responses[i])
              /\ raw_responses[i].angle = angles[i]
              /\ (CreationRaised(i) \/ PollingRaised(i)) =>
                    /\ raw_responses[i].error # None
                    /\ raw_responses[i].data = NoneData

\* C7: while one branch waits between two of its polls, a sibling branch that
\* has not started yet can issue its conversation creation.
C7_SiblingNotDelayed ==
    \A i \in Tasks, j \in Tasks :
        (running = i /\ stage = "sleep" /\ ready # <<>> /\ Head(ready) = j)
            => ENABLED StartTask(j)

\* C8: process_angle never raises: a task that has ended has returned a
\* result; and if its creation call raised, or answered no conversation id or
\* no message id, or its get_message raised, the result is for its angle, with
\* a non-null error and null data.
C8_BranchNeverRaises ==
    \A i \in 1..NumAngles :
        /\ Ended(i) => HasOutcome(i)
        /\ HasOutcome(i) =>
              /\ ~Raised(i)
              /\ (PollingRaised(i) \/ CreationRaised(i) \/ NoConversationId(i)
                    \/ NoMessageId(i)) =>
                    /\ results[i].angle = angles[i]
                    /\ results[i].error # None
                    /\ results[i].data = NoneData

\* C9: if fetches 1..k-1 answered non-terminal states and fetch k answered
\* COMPLETED, get_message has returned the body of fetch k after exactly k
\* fetches.
C9_PollingTermination ==
    \A k \in 1..Len(polls) :
        (/\ k <= max_retries
         /\ \A m \in 1..(k - 1) : AnsweredNonTerminal(polls[m])
         /\ AnsweredCompleted(polls[k])) =>
            /\ Len(polls) = k
            /\ stage = "done"
            /\ gm = GmReturn(polls[k])

\* C10: if get_message has ended after fetches that all answered a non-terminal
\* state, then (the budget being at least 1) it made exactly max_retries
\* fetches and returned the body of the last one.
C10_PollingTimeout ==
    (/\ stage = "done"
     /\ max_retries >= 1
     /\ polls # <<>>
     /\ \A m \in 1..Len(polls) : AnsweredNonTerminal(polls[m])) =>
        /\ Len(polls) = max_retries
        /\ gm = GmReturn(polls[max_retries])

\* A fetch answered the state FAILED or the explicit error state.
AnsweredFailed(a) ==
    a # HttpError /\ "state" \in DOMAIN a /\ a.state \in {"FAILED", "ERROR"}

\* C11: a fetch that answers FAILED is the last fetch of its get_message, which
\* returns without raising; and the result of the task is marked unsuccessful:
\* its error is not null.
C11_FailedIsUnsuccessful ==
    /\ \A k \in 1..Len(polls) :
          AnsweredFailed(polls[k]) =>
              Len(polls) = k /\ stage = "done" /\ gm = GmReturn(polls[k])
    /\ \A i \in 1..NumAngles :
          (Ended(i) /\ PollingReturned(i) /\ AnsweredFailed(gm_log[i].value)) =>
              results[i].error # None

\* The entry carries a null error and a non-null data.
HasNullErrorAndData(r) == r.error = None /\ r.data # NoneData

\* C12: what normalize_responses returned is, in input order, the projection
\* of exactly the entries of its input with a null error and a non-null data.
C12_NormalizeKeepsExactly ==
    pc = "contradictions" =>
        LET kept == SelectSeq(valid_responses, HasNullErrorAndData)
        IN  /\ Len(responses) = Len(kept)
            /\ \A i \in 1..Len(responses) :
                  /\ i <= Len(kept)
                  /\ responses[i].angle = kept[i].angle
                  /\ responses[i].conversation_id = kept[i].conversation_id
                  /\ responses[i].message_id = kept[i].message_id
                  /\ responses[i].content = Get(kept[i].data, "content", "")

\* check_contradictions has returned.
Analyzed == pc \in {"synthesize", "done"}
CalledFor(purpose) == \E k \in 1..Len(llm_calls) : llm_calls[k] = purpose

\* C13: with fewer than 2 normalized responses, check_contradictions leaves its
\* input as normalize_responses returned it, with no contradiction_analysis
\* field, and the capability is not called for contradictions.
C13_ContradictionShortCircuit ==
    (Analyzed /\ Len(responses) < 2) =>
        /\ ~CalledFor("contradictions")
        /\ responses = normalize_responses(valid_responses)
        /\ \A i \in 1..Len(responses) :
              "contradiction_analysis" \notin DOMAIN responses[i]

\* C13, witness: check_contradictions has returned on one normalized response.
C13_Witness == pc = "synthesize" /\ Len(responses) = 1

\* The entry without its contradiction_analysis field.
WithoutAnalysis(r) == [k \in DOMAIN r \ {"contradiction_analysis"} |-> r[k]]

\* C14: with 2 or more normalized responses, check_contradictions returns the
\* same entries in the same order, each one carrying the same
\* contradiction_analysis: the degraded error string if the capability call
\* raised, what the capability answered otherwise. After a capability failure
\* in this stage a failure result is never that failure, and a success result
\* carries every entry.
C14_ContradictionAnnotation ==
    (Analyzed /\ Len(responses) >= 2) =>
        /\ CalledFor("contradictions")
        /\ [i \in 1..Len(responses) |-> WithoutAnalysis(responses[i])]
               = normalize_responses(valid_responses)
        /\ \A i \in 1..Len(responses) :
              /\ "contradiction_analysis" \in DOMAIN responses[i]
              /\ responses[i].contradiction_analysis =
                     responses[1].contradiction_analysis
              /\ IF "contradictions" \in llm_raised
                 THEN responses[i].contradiction_analysis = ErrContradictions
                 ELSE responses[i].contradiction_analysis \in {AnalysisText, None}
        /\ (Returned /\ "contradictions" \in llm_raised) =>
              /\ ~result.success => result.error = MsgNotIterable
              /\ result.success => result.raw_responses = responses

\* C14, witness: the capability failed on two normalized responses and the
\* query returned a success.
C14_Witness ==
    /\ Returned
    /\ Len(responses) = 2
    /\ "contradictions" \in llm_raised
    /\ result.success
    /\ Len(result.raw_responses) = 2

\* The query returned a report that lists sources.
HasReportSources ==
    Succeeded /\ "sources" \in DOMAIN result.final_report
ReportSources == result.final_report.sources

\* The places of the walk: response i, then place j in its sources.
WalkPlaces ==
    UNION { { << i, j >> : j \in 1..Len(responses[i].sources) } :
            i \in 1..Len(responses) }
WalkBefore(p, q) == p[1] < q[1] \/ (p[1] = q[1] /\ p[2] < q[2])
SourceAt(p) == responses[p[1]].sources[p[2]]
\* The source carries a sourceId: the field is there and is not empty.
HasSourceId(s) == "sourceId" \in DOMAIN s /\ s.sourceId # ""
\* The places where a sourceId occurs for the first time in the walk.
FirstOccurrences ==
    { p \in WalkPlaces :
        /\ HasSourceId(SourceAt(p))
        /\ \A q \in WalkPlaces :
              (WalkBefore(q, p) /\ HasSourceId(SourceAt(q))) =>
                  SourceAt(q).sourceId # SourceAt(p).sourceId }

\* C15: the sources of the final report are the records at the first
\* occurrences of each sourceId, in walk order (responses in order, each
\* response's sources in order); no sourceId occurs twice among them. A
\* missing or empty sourceId is no sourceId.
C15_FirstOccurrenceKept ==
    HasReportSources =>
        /\ Len(ReportSources) = Cardinality(FirstOccurrences)
        /\ \A p \in FirstOccurrences :
              ReportSources[Cardinality({ q \in FirstOccurrences :
                                            WalkBefore(q, p) }) + 1] = SourceAt(p)
        /\ \A k, l \in 1..Len(ReportSources) :
              k # l => ReportSources[k].sourceId # ReportSources[l].sourceId

\* C15, witness: a later duplicate with other fields was discarded, in the
\* same response and across responses.
C15_Witness ==
    /\ HasReportSources
    /\ Len(responses) = 2
    /\ responses[1].sources = << SrcA >>
    /\ responses[2].sources = << SrcA2, SrcNoId, SrcEmptyId, SrcA, SrcB >>
    /\ ReportSources = << SrcA, SrcB >>

\* A response that carries the given source list.
Carrying(sources) == [angle |-> "a", content |-> "", sources |-> sources]

\* C16: deduplicating one response that carries the sources of the final
\* report gives that same list, in the same order.
C16_DedupIdempotent ==
    HasReportSources =>
        all_sources(<< Carrying(ReportSources) >>) = ReportSources

\* C16, witness: the first pass discarded duplicates and kept two sources.
C16_Witness ==
    /\ HasReportSources
    /\ Len(ReportSources) = 2
    /\ Len(ConcatSources(responses)) > 2

\* Every branch of a query with at least one angle fetched a COMPLETED message.
AllBranchesCompleted ==
    /\ NumAngles >= 1
    /\ \A i \in 1..NumAngles :
          Ended(i) /\ PollingReturned(i) /\ AnsweredCompleted(gm_log[i].value)
\* The source list the branch of angle i fetched.
BranchSources(i) == Get(gm_log[i].value, "sources", <<>>)
SourceIds(list) ==
    { list[k].sourceId : k \in { n \in 1..Len(list) : HasSourceId(list[n]) } }
PairwiseDisjoint ==
    \A i, j \in 1..NumAngles :
        i # j => SourceIds(BranchSources(i)) \cap SourceIds(BranchSources(j)) = {}
\* Every source of the list has a sourceId and no sourceId is repeated in it.
DistinctIds(list) ==
    /\ \A k \in 1..Len(list) : HasSourceId(list[k])
    /\ \A k, l \in 1..Len(list) : k # l => list[k].sourceId # list[l].sourceId
RECURSIVE BranchesConcatenated(_)
\* The source lists of branches 1..n, one after the other.
BranchesConcatenated(n) ==
    IF n = 0 THEN <<>> ELSE BranchesConcatenated(n - 1) \o BranchSources(n)
ConcatenationReported ==
    /\ HasReportSources
    /\ ReportSources = BranchesConcatenated(NumAngles)
    /\ result.responses_processed = NumAngles

\* C17: when every branch completes successfully, the branches' source lists
\* are pairwise disjoint by sourceId, no list repeats a sourceId or holds a
\* source without one, and the synthesis call does not fail, the sources of
\* the final report are the branches' lists concatenated in angle order and
\* responses_processed is the number of angles.
C17_DisjointSourcesConcatenate ==
    ( /\ Returned
      /\ AllBranchesCompleted
      /\ PairwiseDisjoint
      /\ \A i \in 1..NumAngles : DistinctIds(BranchSources(i))
      /\ "synthesis" \notin llm_raised ) => ConcatenationReported

\* C17, witness: two angles with sources [A] and [B] gave [A, B], 2 processed.
C17_Witness ==
    /\ Returned
    /\ AllBranchesCompleted
    /\ NumAngles = 2
    /\ BranchSources(1) = << SrcA >>
    /\ BranchSources(2) = << SrcB >>
    /\ HasReportSources
    /\ ReportSources = << SrcA, SrcB >>
    /\ result.responses_processed = 2

\* C17 as stated: only completion of every branch and pairwise disjoint lists
\* are asked for.
C17_Original ==
    (Returned /\ AllBranchesCompleted /\ PairwiseDisjoint) => ConcatenationReported

\* C18: once the fan-out of at least one angle has been gathered,
\* synthesize_report does not raise: the query returns success=true with
\* raw_responses and responses_processed populated, and when the synthesis
\* capability call failed the final report holds only an error field.
C18_SynthesisNeverRaises ==
    (Returned /\ NumAngles >= 1) =>
        /\ result.success
        /\ result.raw_responses = responses
        /\ result.responses_processed = Len(valid_responses)
        /\ "synthesis" \in llm_raised => DOMAIN result.final_report = {"error"}

\* get_message has ended with no fetch having answered a terminal state: every
\* fetch answered a non-terminal state or was a transport failure, and at
\* least one answered.
EndedWithoutTerminal ==
    /\ stage = "done"
    /\ \A m \in 1..Len(polls) :
          AnsweredNonTerminal(polls[m]) \/ IsHttpError(polls[m])
    /\ \E m \in 1..Len(polls) : AnsweredNonTerminal(polls[m])
\* The answer of the most recent fetch that was not a transport failure.
MostRecentFetched ==
    polls[CHOOSE m \in 1..Len(polls) :
             /\ ~IsHttpError(polls[m])
             /\ \A n \in (m + 1)..Len(polls) : IsHttpError(polls[n])]

C20_TransportFailureRetried ==
    /\ Len(polls) <= max_retries
    /\ stage \in {"poll", "sleep"} => retry_count = Len(polls)
    /\ (polls # <<>> /\ IsHttpError(polls[Len(polls)])) =>
          IF Len(polls) < max_retries
          THEN stage \in {"poll", "sleep"} /\ gm = GmNone
          ELSE stage = "done" /\ gm = GmRaise("RequestException")
    /\ \A i \in 1..NumAngles :
          (Ended(i) /\ gm_log[i] = GmRaise("RequestException")) =>
              /\ results[i].error # None
              /\ results[i].data = NoneData

\* C20, witness: the first task ended with an error after its get_message
\* raised the transport error; the second one polled past a transport failure
\* and raised on the transport failure of its third and last attempt.
C20_Witness ==
    /\ NumAngles = 2
    /\ Ended(1)
    /\ gm_log[1] = GmRaise("RequestException")
    /\ results[1].error # None
    /\ running = 2
    /\ max_retries = 3
    /\ Len(polls) = 3
    /\ AnsweredNonTerminal(polls[1])
    /\ IsHttpError(polls[2])
    /\ IsHttpError(polls[3])
    /\ gm = GmRaise("RequestException")

\* The create_conversation calls made for task i.
CreationCalls(i) == { k \in 1..Len(conv_calls) : conv_calls[k].task = i }

\* C21: the conversation of an angle is created at most once, and exactly once
\* when the fan-out has been gathered; a creation answer without a conversation
\* identifier, or with one and without a message identifier, ends the branch
\* with a non-null error and null data, and get_message is never entered for
\* that angle.
C21_CreatedOnceNoPollWithoutIds ==
    \A i \in 1..NumAngles :
        /\ LET n == Cardinality(CreationCalls(i))
           IN  n <= 1 /\ (Gathered => n = 1)
        /\ (Called(i) /\ (NoConversationId(i) \/ NoMessageId(i))) =>
              /\ running # i
              /\ gm_log[i] = GmNone
              /\ results[i].error # None
              /\ results[i].data = NoneData

\* C22: every normalized response has a content value and a sources list,
\* possibly empty and never null, and no stage after normalization fails on
\* the sources field.
C22_NormalizedHasSourcesList ==
    /\ Gathered =>
          \A i \in 1..Len(responses) :
              /\ "content" \in DOMAIN responses[i]
              /\ responses[i].content # None
              /\ "sources" \in DOMAIN responses[i]
              /\ responses[i].sources # NoneList
    /\ (Returned /\ ~result.success) => result.error # MsgNotIterable

\* Every task of the fan-out has ended with its outcome.
AllEnded ==
    /\ running = 0
    /\ ready = <<>>
    /\ \A i \in 1..NumAngles : HasOutcome(i) /\ (Raised(i) \/ Called(i))
\* The steps orchestrate_query may take from one stage to the next.
StageOrder ==
    { << "start", "gather" >>, << "start", "done" >>,
      << "gather", "contradictions" >>, << "contradictions", "synthesize" >>,
      << "synthesize", "done" >> }

\* C23: the stages after the fan-out run only once every branch has ended with
\* its outcome; until then nothing is normalized, also when a branch has
\* already failed; and the stages follow one another in the order generate,
\* fan-out, normalize, analyze contradictions, synthesize.
C23_JoinAllBarrier ==
    /\ [](Gathered => AllEnded)
    /\ [](pc \in {"start", "gather"} =>
             raw_responses = <<>> /\ valid_responses = <<>> /\ responses = <<>>)
    /\ [][pc' # pc => << pc, pc' >> \in StageOrder]_vars

\* C23, witness: the first branch failed at once, the second one is still
\* polling, and nothing has been normalized.
C23_Witness ==
    /\ pc = "gather"
    /\ NumAngles = 2
    /\ Ended(1)
    /\ results[1].error # None
    /\ running = 2
    /\ stage = "sleep"
    /\ responses = <<>>

\* The number of capability calls made for the purpose.
CallsFor(purpose) ==
    Cardinality({ k \in 1..Len(llm_calls) : llm_calls[k] = purpose })

\* C24: the capability is called at most three times, in the order angle
\* generation, contradiction analysis, synthesis, each at most once: the
\* contradiction call only with at least 2 normalized responses, the synthesis
\* call only with at least 1; a call that raised is not made again.
C24_AtMostThreeCapabilityCalls ==
    /\ llm_calls \in { <<>>, << "angles" >>,
                       << "angles", "contradictions" >>,
                       << "angles", "synthesis" >>,
                       << "angles", "contradictions", "synthesis" >> }
    /\ (pc # "start" /\ query # Surrogate) => CallsFor("angles") = 1
    /\ CalledFor("contradictions") => Len(responses) >= 2
    /\ CalledFor("synthesis") => Len(responses) >= 1
    /\ \A purpose \in llm_raised : CallsFor(purpose) = 1

\* C24, witness: three calls were made, and the two after the angle generation
\* both failed.
C24_Witness ==
    /\ Returned
    /\ llm_calls = << "angles", "contradictions", "synthesis" >>
    /\ llm_raised = { "contradictions", "synthesis" }

\* What is left of the running get_message call: two steps (the fetch, the
\* sleep) for every attempt left, then its end and the end of the task.
BranchSteps ==
    CASE stage = "poll" -> 2 * (max_retries - retry_count) + 2
      [] stage = "sleep" -> 2 * (max_retries - retry_count) + 3
      [] stage = "done" -> 1
      [] OTHER -> 0
\* More than a task can take from its start to its end.
TaskSteps == 2 * max_retries + 4
StagesLeft ==
    CASE pc = "start" -> 4
      [] pc = "gather" -> 3
      [] pc = "contradictions" -> 2
      [] pc = "synthesize" -> 1
      [] OTHER -> 0
\* A bound on the steps orchestrate_query has left.
StepsLeft ==
    StagesLeft * ((MaxLines + 1) * TaskSteps + 1) + Len(ready) * TaskSteps
        + BranchSteps

\* C25: a get_message call never makes more fetches than the budget, whatever
\* the fetches answer, every answer that does not end the call using up one
\* attempt; and orchestrate_query returns in the end: every step (a capability
\* call, a creation, a fetch, a sleep, each returning or raising) lowers a
\* bound on the steps left, and as long as the query has not returned a step
\* is possible.
C25_PollingAndQueryTerminate ==
    /\ [](Len(polls) <= max_retries)
    /\ [](stage \in {"poll", "sleep"} => retry_count = Len(polls))
    /\ [](StepsLeft >= 0)
    /\ [][StepsLeft' < StepsLeft]_vars
    /\ [](~Returned => ENABLED Next)

\* C25, witness: the query returned after a branch spent a budget of 3 on
\* answers that were never terminal.
C25_Witness ==
    /\ Returned
    /\ max_retries = 3
    /\ \E i \in 1..NumAngles :
          /\ PollingReturned(i)
          /\ AnsweredNonTerminal(gm_log[i].value)

\* The two shapes of a result of process_angle.
SuccessShape(r) ==
    /\ r.error = None
    /\ r.data # NoneData
    /\ {"conversation_id", "message_id"} \subseteq DOMAIN r
    /\ r.conversation_id # None
    /\ r.message_id # None
ErrorShape(r) == r.error # None /\ r.data = NoneData

\* C26: every result a branch has returned has exactly one of the two shapes:
\* a null error with data and both identifiers, or an error with null data.
C26_ExactlyOneShape ==
    \A i \in 1..Len(results) :
        (HasOutcome(i) /\ ~Raised(i)) =>
            /\ {"angle", "error", "data"} \subseteq DOMAIN results[i]
            /\ SuccessShape(results[i]) \/ ErrorShape(results[i])
            /\ ~(SuccessShape(results[i]) /\ ErrorShape(results[i]))

\* C26, witness: one branch ended with an error, the other with the empty
\* payload its last fetch answered.
C26_Witness ==
    /\ Gathered
    /\ NumAngles = 2
    /\ ~Raised(1) /\ ~Raised(2)
    /\ ErrorShape(results[1])
    /\ SuccessShape(results[2])
    /\ results[2].data = EmptyDict

\* C27: the mock orchestrator returns, for every query, success=true with 4
\* generated angles, responses_processed and the length of raw_responses both
\* 4, the same contradiction analysis on every raw response, and a final
\* report without an error field whose source_angles are the generated angles
\* in order.
C27_MockFlow ==
    Returned =>
        /\ result.success
        /\ Len(result.angles_generated) = 4
        /\ result.responses_processed = 4
        /\ Len(result.raw_responses) = 4
        /\ \A i \in 1..Len(result.raw_responses) :
              /\ "contradiction_analysis" \in DOMAIN result.raw_responses[i]
              /\ result.raw_responses[i].contradiction_analysis =
                     result.raw_responses[1].contradiction_analysis
        /\ "error" \notin DOMAIN result.final_report
        /\ result.final_report.source_angles = result.angles_generated


\* The branch of angle i ended without error and with a payload that is not
\* empty: the branches normalize_responses keeps.
BranchNormalized(i) ==
    /\ ~Raised(i)
    /\ results[i].error = None
    /\ results[i].data \notin { NoneData, EmptyDict }
\* The angles of those branches, in the order of the generated angles.
NormalizedAngles ==
    LET kept == SelectSeq([i \in 1..NumAngles |-> i], BranchNormalized)
    IN  [k \in 1..Len(kept) |-> angles[kept[k]]]

\* C28: in a success result, the angles of raw_responses are the generated
\* angles whose branch was normalized, in the order of generation; a final
\* report without error lists the same angles and counts as many as there are
\* raw responses.
C28_AnglesInOrder ==
    Succeeded =>
        /\ [k \in 1..Len(result.raw_responses) |-> result.raw_responses[k].angle]
               = NormalizedAngles
        /\ result.angles_generated = angles
        /\ "error" \notin DOMAIN result.final_report =>
              /\ result.final_report.source_angles = NormalizedAngles
              /\ result.final_report.total_angles_processed =
                     Len(result.raw_responses)

\* C28, witness: of the angles a and b the first branch failed; the raw
\* responses and the report list b alone.
C28_Witness ==
    /\ Succeeded
    /\ angles = << << "a" >>, << "b" >> >>
    /\ results[1].error # None
    /\ "error" \notin DOMAIN result.final_report
    /\ result.final_report.source_angles = << << "b" >> >>
    /\ Len(result.raw_responses) = 1

\* C29: when the report lists sources, none of them has a missing or empty
\* sourceId, and every non-empty sourceId found in the sources of a normalized
\* response is the sourceId of exactly one of them.
C29_IdentifiedSourcesOnce ==
    HasReportSources =>
        /\ \A k \in 1..Len(ReportSources) :
              /\ "sourceId" \in DOMAIN ReportSources[k]
              /\ ReportSources[k].sourceId # ""
        /\ \A p \in WalkPlaces :
              ("sourceId" \in DOMAIN SourceAt(p) /\ SourceAt(p).sourceId # "") =>
                  Cardinality({ k \in 1..Len(ReportSources) :
                                  ReportSources[k].sourceId = SourceAt(p).sourceId }) = 1

\* C29, witness: the only response held a source without sourceId, one with an
\* empty sourceId and two sourceIds, one of them twice; the report lists the
\* two.
C29_Witness ==
    /\ HasReportSources
    /\ Len(responses) = 1
    /\ responses[1].sources = << SrcA2, SrcNoId, SrcEmptyId, SrcA, SrcB >>
    /\ ReportSources = << SrcA2, SrcB >>

\* C30: with a budget of zero attempts get_message makes no fetch and ends by
\* raising, never by returning a payload: no response was ever assigned (or,
\* before the loop, its first log line could not be written); the task it ran
\* in ends with a result whose error is not null, so no branch ends with a
\* null error.
C30_ZeroBudgetIsBranchError ==
    max_retries = 0 =>
        /\ polls = <<>>
        /\ stage = "done" =>
              gm = IF EncodableText(message_id)
                   THEN GmRaise("UnboundLocalError")
                   ELSE GmRaiseUnencodable(LogFetchingMessage(conversation_id))
        /\ \A i \in 1..NumAngles :
              Ended(i) =>
                  /\ gm_log[i] = GmNone \/ gm_log[i].kind = "raise"
                  /\ (PollingRaised(i) /\ EncodableText(CreateAnswer(i).messageId)) =>
                        gm_log[i] = GmRaise("UnboundLocalError")
                  /\ results[i].error # None
                  /\ results[i].data = NoneData

\* C30, witness: under a budget of zero a branch whose conversation was
\* created with both identifiers ended with the error of get_message.
C30_Witness ==
    /\ max_retries = 0
    /\ Ended(1)
    /\ ~CreationRaised(1) /\ ~NoConversationId(1) /\ ~NoMessageId(1)
    /\ gm_log[1] = GmRaise("UnboundLocalError")
    /\ results[1].error =
         "Exception processing angle 'a': cannot access local variable 'response_data' where it is not associated with a value"

====
